---- MODULE Spec2Model ----
(***************************************************************************)
(* Credit-approval backend: credit score, approval policy, EMI and the     *)
(* check_eligibility / create_loan handlers (loans/views.py,               *)
(* loans/models.py, loans/serializers.py).                                 *)
(*                                                                         *)
(* Units.  Decimal(.., decimal_places=2) money values are integers in      *)
(* hundredths (cents); interest rates are integers in hundredths of a      *)
(* percent (1200 = 12.00%).  Customer.monthly_salary and approved_limit    *)
(* are IntegerFields and stay in whole currency units.  Dates are day      *)
(* numbers, day 0 = 1 January 2025.                                        *)
(***************************************************************************)
EXTENDS Integers, Sequences, FiniteSets, TLC

VARIABLES customers, loans, today, resp, ret, inflight

vars == <<customers, loans, today, resp, ret, inflight>>

(***************************************************************************)
(* Bounds of the model.                                                    *)
(***************************************************************************)
MaxLoans == 2
MaxDay == 180
MaxHist == 6

(***************************************************************************)
(* Arithmetic helpers.                                                     *)
(***************************************************************************)
Abs(x) == IF x < 0 THEN -x ELSE x

Min(x, y) == IF x <= y THEN x ELSE y

Max(x, y) == IF x >= y THEN x ELSE y

RECURSIVE GCD(_, _)
GCD(x, y) == IF y = 0 THEN x ELSE GCD(y, x % y)

RECURSIVE Pow(_, _)
Pow(x, n) == IF n = 0 THEN 1 ELSE x * Pow(x, n - 1)

\* <<q, r>> with p * n = q * d + r and 0 <= r < d, for p >= 0, n >= 0, d > 0,
\* by binary long multiplication so that no intermediate exceeds 3 * d
RECURSIVE MulDivMod(_, _, _)
MulDivMod(p, n, d) ==
    IF p = 0 THEN <<0, 0>>
    ELSE LET h == MulDivMod(p \div 2, n, d)
             t == 2 * h[2] + (p % 2) * (n % d)
         IN  <<2 * h[1] + (p % 2) * (n \div d) + (t \div d), t % d>>

\* round(p * n / d) to the nearest integer, ties to even (Python round); d > 0
RoundMulDiv(p, n, d) ==
    LET qr == MulDivMod(Abs(p), Abs(n), d)
        q  == qr[1]
        r  == qr[2]
        m  == IF 2 * r < d THEN q
              ELSE IF 2 * r > d THEN q + 1
              ELSE IF q % 2 = 0 THEN q ELSE q + 1
    IN  IF (p < 0) = (n < 0) THEN m ELSE -m

\* int(num/den): truncation toward zero; den > 0
TruncDiv(num, den) == IF num >= 0 THEN num \div den ELSE -((-num) \div den)

\* calendar year of a day number; exact for days -366 .. 1094
\* (2024 is the leap year before day 0, 2025-2027 have 365 days)
YearOf(d) == IF d < 0 THEN 2024 ELSE 2025 + (d \div 365)

\* whole currency units (IntegerField) to cents
Cents(units) == 100 * units

(***************************************************************************)
(* Loan.calculate_emi.  The result is the float the code returns, kept as  *)
(* an exact fraction num/den of cents: the compound branch rounds to two   *)
(* decimals (den = 1), the zero-rate branch returns the unrounded          *)
(* quotient.  raised = TRUE is the ZeroDivisionError of tenure_months = 0. *)
(***************************************************************************)
EmiRaised == [raised |-> TRUE, num |-> 0, den |-> 1]

EmiValue(n, d) ==
    IF d < 0 THEN [raised |-> FALSE, num |-> -n, den |-> -d]
             ELSE [raised |-> FALSE, num |-> n, den |-> d]

calculate_emi(principal, annual_rate, tenure_months) ==
    IF annual_rate = 0
    THEN IF tenure_months = 0 THEN EmiRaised
         ELSE LET g == GCD(Abs(principal), Abs(tenure_months))
              IN  EmiValue(principal \div g, tenure_months \div g)
    ELSE IF tenure_months = 0 THEN EmiRaised
    ELSE LET g  == GCD(Abs(annual_rate), 120000)
             a  == annual_rate \div g          \* monthly_rate = a / b
             b  == 120000 \div g
             m  == Abs(tenure_months)
             pa == Pow(b + a, m)
             pb == Pow(b, m)
             \* emi = principal * N / D
             N0 == IF tenure_months > 0 THEN a * pa ELSE -(a * pb)
             D0 == b * (pa - pb)
             h  == GCD(Abs(N0), Abs(D0))
             N  == IF D0 < 0 THEN -(N0 \div h) ELSE N0 \div h
             D  == Abs(D0) \div h
         IN  IF D0 = 0 THEN EmiRaised
             ELSE EmiValue(RoundMulDiv(principal, N, D), 1)

(***************************************************************************)
(* Stored records.  loans is the loans table in insertion order; the       *)
(* AutoField loan_id of a row is its index.  customers maps customer_id to *)
(* the Customer row.                                                       *)
(***************************************************************************)
Customer(salary, limit) == [monthly_salary |-> salary, approved_limit |-> limit]

Loan(c, amount, tenure, rate, repayment, paid, start, end) ==
    [customer |-> c, loan_amount |-> amount, tenure |-> tenure,
     interest_rate |-> rate, monthly_repayment |-> repayment,
     emis_paid_on_time |-> paid, start_date |-> start, end_date |-> end]

\* Loan.is_current_loan / the end_date__gte=today filters
is_current_loan(l, day) == l.end_date >= day

\* indices of the rows of table selected by a filter
LoansOf(table, c) == {i \in DOMAIN table : table[i].customer = c}

\* a filter that selects no row
CurrentLoansOf_None(table, c, day) == {}

CurrentLoansOf(table, c, day) ==
    {i \in LoansOf(table, c) : is_current_loan(table[i], day)}

\* aggregate(Sum(field)) over a set of rows
RECURSIVE SumField(_, _, _)
SumField(table, rows, field) ==
    IF rows = {} THEN 0
    ELSE LET i == CHOOSE j \in rows : TRUE
         IN  table[i][field] + SumField(table, rows \ {i}, field)

(***************************************************************************)
(* calculate_credit_score.  The float accumulator `score` is kept as the   *)
(* exact numerator over den (den = total tenure when factor 1 applies,     *)
(* else 1); int() truncates the quotient toward zero before the clamp.     *)
(***************************************************************************)
\* factor 4 with the override dropped: the top tier adds nothing
UtilizationFactor_NoOverride(acc, den, total_current_amount, approved_limit) ==
    IF approved_limit > 0
    THEN IF 2 * total_current_amount <= Cents(approved_limit)
              THEN acc + 20 * den
         ELSE IF 4 * total_current_amount <= 3 * Cents(approved_limit)
              THEN acc + 10 * den
         ELSE IF total_current_amount < Cents(approved_limit)
              THEN acc + 5 * den
         ELSE acc
    ELSE acc

\* factor 4 applied to the accumulator acc/den;
\* utilization_ratio = total_current_amount / approved_limit
UtilizationFactor(acc, den, total_current_amount, approved_limit) ==
    IF approved_limit > 0
    THEN IF 2 * total_current_amount <= Cents(approved_limit)
              THEN acc + 20 * den
         ELSE IF 4 * total_current_amount <= 3 * Cents(approved_limit)
              THEN acc + 10 * den
         ELSE IF total_current_amount < Cents(approved_limit)
              THEN acc + 5 * den
         ELSE 0                                  \* score = 0
    ELSE acc

\* the final clamp without its lower bound
ClampScore_UpperOnly(score) == Min(100, score)

\* return min(100, max(0, int(score))), score already truncated
ClampScore(score) == Min(100, Max(0, score))

\* the scoring of a customer who has loan rows
ScoreFromHistory(customer) ==
    LET mine == LoansOf(loans, customer)
        total_emis == SumField(loans, mine, "tenure")
        paid_on_time == SumField(loans, mine, "emis_paid_on_time")
        den == IF total_emis > 0 THEN total_emis ELSE 1
        \* factor 1: score += min(40, on_time_ratio * 40)
        s1 == IF total_emis > 0 THEN Min(40 * den, 40 * paid_on_time) ELSE 0
        \* factor 2: 4 points per loan up to 5 loans
        loan_count == Cardinality(mine)
        s2 == s1 + den * (IF loan_count <= 5 THEN loan_count * 4 ELSE 20)
        \* factor 3: loans started in the current year
        current_year_loans ==
            Cardinality({i \in mine : YearOf(loans[i].start_date) = YearOf(today)})
        s3 == s2 + den * Min(20, current_year_loans * 5)
        \* factor 4: utilization of the approved limit
        total_current_amount ==
            SumField(loans, CurrentLoansOf(loans, customer, today), "loan_amount")
        s4 == UtilizationFactor(s3, den, total_current_amount,
                                customers[customer].approved_limit)
    IN  ClampScore(TruncDiv(s4, den))

\* the scoring without the new-customer default
calculate_credit_score_NoDefault(customer) == ScoreFromHistory(customer)

calculate_credit_score(customer) ==
    IF LoansOf(loans, customer) = {} THEN 50
    ELSE ScoreFromHistory(customer)

(***************************************************************************)
(* get_approval_decision.  Returns (approved, corrected_rate, message);    *)
(* raised = TRUE is the ZeroDivisionError that escapes from calculate_emi. *)
(***************************************************************************)
LIMIT_EXCEEDED == "Loan amount exceeds approved limit"

SCORE_TOO_LOW == "Credit score too low"

EMI_TOO_HIGH == "EMI exceeds 50% of monthly salary"

APPROVED == "Approved"

Rejections == {LIMIT_EXCEEDED, SCORE_TOO_LOW, EMI_TOO_HIGH}

Decision(approved, rate, message) ==
    [raised |-> FALSE, approved |-> approved, rate |-> rate, message |-> message]

DecisionRaised ==
    [raised |-> TRUE, approved |-> FALSE, rate |-> 0, message |-> "ZeroDivisionError"]

\* the score tiers with non-strict boundaries
min_interest_NonStrict(credit_score) ==
    IF credit_score >= 50 THEN 1000
    ELSE IF credit_score >= 30 THEN 1200
    ELSE IF credit_score >= 10 THEN 1600
    ELSE 0

\* the score tiers; 0 stands for the rejecting else-branch
min_interest(credit_score) ==
    IF credit_score > 50 THEN 1000
    ELSE IF credit_score > 30 THEN 1200
    ELSE IF credit_score > 10 THEN 1600
    ELSE 0

\* the limit test left out
limit_exceeded_Never(current_loan_sum, loan_amount, approved_limit) == FALSE

\* the limit test without the requested amount
limit_exceeded_IgnoresRequest(current_loan_sum, loan_amount, approved_limit) ==
    current_loan_sum > Cents(approved_limit)

\* current_loan_sum + loan_amount > customer.approved_limit
limit_exceeded(current_loan_sum, loan_amount, approved_limit) ==
    current_loan_sum + loan_amount > Cents(approved_limit)

\* the tier floor taken as the rate
corrected_rate_TierOnly(requested_rate, floor) == floor

\* corrected_rate = max(float(requested_rate), min_interest)
corrected_rate_of(requested_rate, floor) == Max(requested_rate, floor)

\* the affordability test with a non-strict comparison
emi_too_high_NonStrict(monthly_emi, current_emis, monthly_salary) ==
    2 * (monthly_emi.num + monthly_emi.den * current_emis)
        >= monthly_emi.den * Cents(monthly_salary)

\* total_emi > customer.monthly_salary * 0.5, in cents over monthly_emi.den
emi_too_high(monthly_emi, current_emis, monthly_salary) ==
    2 * (monthly_emi.num + monthly_emi.den * current_emis)
        > monthly_emi.den * Cents(monthly_salary)

get_approval_decision(credit_score, customer, loan_amount, requested_rate, tenure) ==
    LET current_loans == CurrentLoansOf(loans, customer, today)
        current_loan_sum == SumField(loans, current_loans, "loan_amount")
        corrected_rate == corrected_rate_of(requested_rate, min_interest(credit_score))
        monthly_emi == calculate_emi(loan_amount, corrected_rate, tenure)
        current_emis == SumField(loans, current_loans, "monthly_repayment")
    IN  IF limit_exceeded(current_loan_sum, loan_amount,
                          customers[customer].approved_limit)
        THEN Decision(FALSE, requested_rate, LIMIT_EXCEEDED)
        ELSE IF min_interest(credit_score) = 0
        THEN Decision(FALSE, requested_rate, SCORE_TOO_LOW)
        ELSE IF monthly_emi.raised
        THEN DecisionRaised
        ELSE IF emi_too_high(monthly_emi, current_emis,
                             customers[customer].monthly_salary)
        THEN Decision(FALSE, corrected_rate, EMI_TOO_HIGH)
        ELSE Decision(TRUE, corrected_rate, APPROVED)

(***************************************************************************)
(* HTTP handlers.  resp is the last response together with the request it  *)
(* answers and the handler's locals (credit_score, decision).              *)
(***************************************************************************)
HTTP_200_OK == 200

HTTP_400_BAD_REQUEST == 400

HTTP_404_NOT_FOUND == 404

HTTP_500_SERVER_ERROR == 500

NoInstallment == [raised |-> FALSE, num |-> 0, den |-> 1]

NoDecision == [raised |-> FALSE, approved |-> FALSE, rate |-> 0, message |-> "none"]

NoResponse ==
    [op |-> "none", customer_id |-> 0, loan_amount |-> 0, interest_rate |-> 0,
     tenure |-> 0, status |-> 0, credit_score |-> 0, decision |-> NoDecision,
     approval |-> FALSE, loan_id |-> 0, message |-> "none",
     monthly_installment |-> NoInstallment]

Response(op, c, amount, rate, tenure, status, score, d, approval, id, msg, inst) ==
    [op |-> op, customer_id |-> c, loan_amount |-> amount, interest_rate |-> rate,
     tenure |-> tenure, status |-> status, credit_score |-> score, decision |-> d,
     approval |-> approval, loan_id |-> id, message |-> msg,
     monthly_installment |-> inst]

\* DecimalField(max_digits=12, decimal_places=2) accepts a float whose
\* shortest decimal form has at most two places: a whole number of cents
DecimalFieldValid(value) == value.den = 1

\* request rejected by the request serializer, or unknown customer
EarlyReturn(op, valid, c, amount, rate, tenure) ==
    IF ~valid
    THEN Response(op, c, amount, rate, tenure, HTTP_400_BAD_REQUEST, 0,
                  NoDecision, FALSE, 0, "invalid request", NoInstallment)
    ELSE Response(op, c, amount, rate, tenure, HTTP_404_NOT_FOUND, 0,
                  NoDecision, FALSE, 0, "Customer not found", NoInstallment)

Fault(op, c, amount, rate, tenure, score, d) ==
    Response(op, c, amount, rate, tenure, HTTP_500_SERVER_ERROR, score, d,
             FALSE, 0, "ZeroDivisionError", NoInstallment)

\* the stored row with the 30-day factor of end_date left out
NewLoan_NoMonthFactor(customer_id, loan_amount, tenure, rate, installment, start_date) ==
    Loan(customer_id, loan_amount, tenure, rate, installment.num, 0,
         start_date, start_date + tenure)

\* Loan.objects.create(...): end_date = start_date + timedelta(days=tenure * 30),
\* emis_paid_on_time takes its default 0
NewLoan(customer_id, loan_amount, tenure, rate, installment, start_date) ==
    Loan(customer_id, loan_amount, tenure, rate, installment.num, 0,
         start_date, start_date + tenure * 30)

\* the response check_eligibility builds from the stored rows
check_eligibility_response(valid, customer_id, loan_amount, interest_rate, tenure) ==
    IF ~valid \/ customer_id \notin DOMAIN customers
    THEN EarlyReturn("check_eligibility", valid, customer_id,
                     loan_amount, interest_rate, tenure)
    ELSE LET credit_score == calculate_credit_score(customer_id)
             d == get_approval_decision(credit_score, customer_id,
                                        loan_amount, interest_rate, tenure)
             monthly_installment == calculate_emi(loan_amount, d.rate, tenure)
         IN  IF d.raised \/ monthly_installment.raised
             THEN Fault("check_eligibility", customer_id, loan_amount,
                        interest_rate, tenure, credit_score, d)
             ELSE Response("check_eligibility", customer_id,
                     loan_amount, interest_rate, tenure,
                     IF DecimalFieldValid(monthly_installment)
                         THEN HTTP_200_OK ELSE HTTP_400_BAD_REQUEST,
                     credit_score, d, d.approved, 0,
                     IF d.approved THEN "none" ELSE d.message,
                     monthly_installment)

\* an eligibility check that books the loan it approves
check_eligibility_Booking(valid, customer_id, loan_amount, interest_rate, tenure) ==
    /\ UNCHANGED <<customers, today, ret, inflight>>
    /\ resp' = check_eligibility_response(valid, customer_id, loan_amount,
                                          interest_rate, tenure)
    /\ loans' = IF resp'.approval
                THEN Append(loans,
                        NewLoan(customer_id, loan_amount, tenure,
                                resp'.decision.rate, resp'.monthly_installment,
                                today))
                ELSE loans

check_eligibility(valid, customer_id, loan_amount, interest_rate, tenure) ==
    /\ UNCHANGED <<customers, loans, today, ret, inflight>>
    /\ resp' = check_eligibility_response(valid, customer_id, loan_amount,
                                          interest_rate, tenure)

create_loan(valid, customer_id, loan_amount, interest_rate, tenure) ==
    /\ UNCHANGED <<customers, today, ret, inflight>>
    /\ IF ~valid \/ customer_id \notin DOMAIN customers
       THEN /\ resp' = EarlyReturn("create_loan", valid, customer_id,
                                   loan_amount, interest_rate, tenure)
            /\ UNCHANGED loans
       ELSE LET credit_score == calculate_credit_score(customer_id)
                d == get_approval_decision(credit_score, customer_id,
                                           loan_amount, interest_rate, tenure)
                monthly_installment == calculate_emi(loan_amount, d.rate, tenure)
                start_date == today
            IN  IF d.raised
                THEN /\ resp' = Fault("create_loan", customer_id, loan_amount,
                                      interest_rate, tenure, credit_score, d)
                     /\ UNCHANGED loans
                ELSE IF d.approved
                THEN /\ Len(loans) < MaxLoans
                     /\ loans' = Append(loans,
                            NewLoan(customer_id, loan_amount, tenure, d.rate,
                                    monthly_installment, start_date))
                     /\ resp' = Response("create_loan", customer_id, loan_amount,
                            interest_rate, tenure,
                            IF DecimalFieldValid(monthly_installment)
                                THEN HTTP_200_OK ELSE HTTP_400_BAD_REQUEST,
                            credit_score, d, TRUE, Len(loans) + 1,
                            "Loan approved successfully", monthly_installment)
                ELSE /\ resp' = Response("create_loan", customer_id, loan_amount,
                            interest_rate, tenure, HTTP_200_OK, credit_score, d,
                            FALSE, 0, d.message, NoInstallment)
                     /\ UNCHANGED loans

\* the system clock moves on (timezone.now())
Tick(days) ==
    /\ today + days <= MaxDay
    /\ today' = today + days
    /\ UNCHANGED <<customers, loans, resp, ret, inflight>>

(***************************************************************************)
(* The service: customers and loan history as loaded by                    *)
(* ingest_initial_data, then requests and the passing of time.             *)
(***************************************************************************)
\* requests being handled by the workers of the service: each worker's
\* position in create_loan and the values it has read so far
MaxWorkers == 2

Workers == 1..MaxWorkers

NoTerms == [customer_id |-> 0, loan_amount |-> 0, interest_rate |-> 0, tenure |-> 0]

IdleWorker ==
    [pc |-> "idle", terms |-> NoTerms, current_loan_sum |-> 0,
     credit_score |-> 0, decision |-> NoDecision, loan_id |-> 0]

NoneInFlight == [w \in Workers |-> IdleWorker]

NoCall ==
    [fn |-> "none", customer |-> 0, credit_score |-> 0, loan_amount |-> 0,
     requested_rate |-> 0, tenure |-> 0, score |-> 0, decision |-> NoDecision]

\* customer 1: high income, small limit; customer 2: low income, large limit
InitialCustomers == (1 :> Customer(1000, 500)) @@ (2 :> Customer(136, 5400))

\* ingested rows: an old, still running loan of customer 1 at 78% of the
\* limit, and an old loan of customer 2 that was fully repaid on time
OldRunningLoan == Loan(1, 39000, 24, 1200, 1836, 0, -200, 520)

OldRepaidLoan == Loan(2, 10000, 12, 1000, 879, 12, -366, -6)

InitialHistories == {<<>>, <<OldRunningLoan>>, <<OldRepaidLoan>>}

\* request terms (customer_id, loan_amount, interest_rate, tenure) as they
\* leave the request serializer; customer 3 does not exist
Terms(c, amount, rate, tenure) ==
    [customer_id |-> c, loan_amount |-> amount, interest_rate |-> rate,
     tenure |-> tenure]

Requests ==
    { Terms(1, 10000, 0, 3), Terms(1, 20000, 0, 3), Terms(1, 10000, 2000, 3),
      Terms(1, 30000, 0, 3),
      Terms(2, 10000, 0, 3), Terms(2, 20000, 0, 3), Terms(2, 20000, 2000, 3),
      Terms(1, 10000, 0, 0), Terms(1, 20000, 2000, 0),
      Terms(1, -10000, 0, 3), Terms(1, 10000, 0, -1),
      Terms(3, 10000, 0, 3) }

DaySteps == {90}

Init ==
    /\ customers = InitialCustomers
    /\ loans \in InitialHistories
    /\ today = 0
    /\ resp = NoResponse
    /\ ret = NoCall
    /\ inflight = NoneInFlight

\* the service answers one request at a time: a request is taken when the
\* previous response has been returned
Idle == resp = NoResponse

CheckEligibility ==
    /\ Idle
    /\ \E valid \in BOOLEAN, r \in Requests :
        check_eligibility(valid, r.customer_id, r.loan_amount,
                          r.interest_rate, r.tenure)

CreateLoan ==
    /\ Idle
    /\ \E valid \in BOOLEAN, r \in Requests :
        create_loan(valid, r.customer_id, r.loan_amount,
                    r.interest_rate, r.tenure)

\* return Response(...): the response leaves the handler
ReturnResponse ==
    /\ ~Idle
    /\ resp' = NoResponse
    /\ UNCHANGED <<customers, loans, today, ret, inflight>>

AdvanceClock == Idle /\ \E days \in DaySteps : Tick(days)

Next == CheckEligibility \/ CreateLoan \/ ReturnResponse \/ AdvanceClock

Spec == Init /\ [][Next]_vars

(***************************************************************************)
(* get_approval_decision applied to drawn inputs: the store is drawn in    *)
(* the initial state, the call draws score and terms.  ret is the call     *)
(* with its arguments and its return value.                                *)
(***************************************************************************)
ActiveLoan(c, amount, repayment) == Loan(c, amount, 24, 1200, repayment, 0, -200, 520)

ExpiredLoan(c, amount, repayment) == Loan(c, amount, 3, 1200, repayment, 3, -200, -110)

DecisionHistories ==
    InitialHistories \cup
    { <<ActiveLoan(1, 20000, 941), ActiveLoan(1, 20000, 941)>>,
      <<ExpiredLoan(1, 40000, 13601), ActiveLoan(2, 10000, 3400)>>,
      <<ActiveLoan(2, 10000, 3400), ActiveLoan(1, 50000, 2354)>> }

DecisionScores == {0, 10, 11, 30, 31, 50, 51, 100}

DecisionAmounts == {-10000, 10000, 20000}

DecisionRates == {0, 800, 1000, 1200, 1600, 2000}

DecisionTenures == {-1, 0, 1, 3}

InitDecision ==
    /\ customers = InitialCustomers
    /\ loans \in DecisionHistories
    /\ today \in {0, 520, 521}
    /\ resp = NoResponse
    /\ ret = NoCall
    /\ inflight = NoneInFlight

Decide ==
    /\ ret = NoCall
    /\ \E score \in DecisionScores, c \in DOMAIN customers,
          amount \in DecisionAmounts, rate \in DecisionRates,
          tenure \in DecisionTenures :
        ret' = [fn |-> "get_approval_decision", customer |-> c,
                credit_score |-> score, loan_amount |-> amount,
                requested_rate |-> rate, tenure |-> tenure, score |-> 0,
                decision |-> get_approval_decision(score, c, amount, rate, tenure)]
    /\ UNCHANGED <<customers, loans, today, resp, inflight>>

NextDecision == Decide

DecisionSpec == InitDecision /\ [][NextDecision]_vars

(***************************************************************************)
(* calculate_credit_score applied to drawn customers and loan histories.   *)
(***************************************************************************)
\* a history row of customer 1: running rows end after every evaluation
\* date of the model, finished rows before
HistoryLoan(amount, tenure, paid, start, running) ==
    Loan(1, amount, tenure, 1200, 1000, paid, start,
         IF running THEN 1000 ELSE start + 30)

HistoryShapes ==
    { HistoryLoan(amount, tenure, paid, start, running) :
        amount \in {12500, 20000}, tenure \in {0, 12},
        paid \in {-20, 0, 7, 20}, start \in {-200, 0}, running \in BOOLEAN }

\* k rows of shape A followed by m rows of shape B
History(A, k, B, m) == [i \in 1..(k + m) |-> IF i <= k THEN A ELSE B]

ScoreCustomers ==
    { (1 :> Customer(1000, limit)) @@ (2 :> Customer(136, 5400)) :
        limit \in {-500, 0, 500} }

InitScore ==
    /\ customers \in ScoreCustomers
    /\ \E A \in HistoryShapes, B \in HistoryShapes, k \in 0..MaxHist, m \in 0..1 :
        /\ k + m <= MaxHist
        /\ (k = 0 => A = B /\ m = 0)
        /\ loans = History(A, k, B, m)
    /\ today \in {40, 400}
    /\ resp = NoResponse
    /\ ret = NoCall
    /\ inflight = NoneInFlight

Score ==
    /\ ret = NoCall
    /\ \E c \in DOMAIN customers :
        ret' = [fn |-> "calculate_credit_score", customer |-> c,
                credit_score |-> 0, loan_amount |-> 0, requested_rate |-> 0,
                tenure |-> 0, score |-> calculate_credit_score(c),
                decision |-> NoDecision]
    /\ UNCHANGED <<customers, loans, today, resp, inflight>>

NextScore == Score

ScoreSpec == InitScore /\ [][NextScore]_vars

TypeOK ==
    /\ DOMAIN customers = {1, 2}
    /\ Len(loans) <= MaxLoans
    /\ today \in 0..MaxDay
    /\ resp.status \in {0, 200, 400, 404, 500}

(***************************************************************************)
(* Properties of get_approval_decision (DecisionSpec).                     *)
(***************************************************************************)
DecisionMade == ret.fn = "get_approval_decision"

\* principal and installments of the caller's loans with end_date >= today
ActiveRows(c) == {i \in DOMAIN loans : loans[i].customer = c /\ loans[i].end_date >= today}

ActivePrincipal(c) == SumField(loans, ActiveRows(c), "loan_amount")

ActiveInstallments(c) == SumField(loans, ActiveRows(c), "monthly_repayment")

OverLimit ==
    ActivePrincipal(ret.customer) + ret.loan_amount
        > 100 * customers[ret.customer].approved_limit

\* C1: when active principal plus the requested amount exceeds the approved
\* limit, the decision is the rejection "limit exceeded" with the requested
\* rate returned unchanged, whatever the credit score is.
C1_LimitExceeded ==
    (DecisionMade /\ OverLimit) =>
        /\ ~ret.decision.raised
        /\ ~ret.decision.approved
        /\ ret.decision.message = LIMIT_EXCEEDED
        /\ ret.decision.rate = ret.requested_rate

C1_Witness ==
    /\ DecisionMade
    /\ OverLimit
    /\ ActivePrincipal(ret.customer) <= 100 * customers[ret.customer].approved_limit
    /\ ret.credit_score <= 10
    /\ ret.requested_rate = 800
    /\ ret.decision = Decision(FALSE, 800, LIMIT_EXCEEDED)

\* C2: for a request within the limit the score tiers are strict: a score
\* above 50 has the floor 10%, above 30 the floor 12%, above 10 the floor
\* 16% (51 -> 10, 50 -> 12, 31 -> 12, 30 -> 16, 11 -> 16), and a score of
\* 10 or less is rejected as "score too low" before anything else is
\* computed.  The floor shows as the rate of a request that asks for less.
C2_ScoreTiers ==
    (DecisionMade /\ ~OverLimit) =>
        /\ ret.credit_score <= 10 =>
              ret.decision = Decision(FALSE, ret.requested_rate, SCORE_TOO_LOW)
        /\ (ret.credit_score > 10 /\ ret.tenure # 0) =>
              /\ ret.decision.message \in {APPROVED, EMI_TOO_HIGH}
              /\ ret.requested_rate < 1000 =>
                    /\ ret.credit_score > 50 => ret.decision.rate = 1000
                    /\ (ret.credit_score > 30 /\ ret.credit_score <= 50) =>
                          ret.decision.rate = 1200
                    /\ (ret.credit_score > 10 /\ ret.credit_score <= 30) =>
                          ret.decision.rate = 1600

C2_Witness ==
    /\ DecisionMade
    /\ ~OverLimit
    /\ ret.credit_score = 50
    /\ ret.requested_rate = 0
    /\ ret.decision = Decision(TRUE, 1200, APPROVED)

\* C3: whatever the outcome, the returned rate is never below the requested
\* rate, and once the limit and score steps have passed it is the larger of
\* the requested rate and the floor of the score tier.
C3_RateNeverLowered ==
    (DecisionMade /\ ~ret.decision.raised) =>
        /\ ret.decision.message \in Rejections \cup {APPROVED}
        /\ ret.decision.rate >= ret.requested_rate
        /\ ret.decision.message \in {APPROVED, EMI_TOO_HIGH} =>
              ret.decision.rate = Max(ret.requested_rate, min_interest(ret.credit_score))

C3_Witness ==
    /\ DecisionMade
    /\ ret.credit_score = 51
    /\ ret.requested_rate = 2000
    /\ ret.decision = Decision(TRUE, 2000, APPROVED)

\* C4: once the limit and score steps have passed, the request is rejected
\* as "EMI too high" exactly when the EMI at the corrected rate plus the
\* installments of the active loans exceeds half the monthly income, and the
\* rejection carries the corrected rate; otherwise it is approved at the
\* corrected rate.
C4_Affordability ==
    (DecisionMade /\ ~OverLimit /\ ret.credit_score > 10 /\ ret.tenure # 0) =>
        LET floor == IF ret.credit_score > 50 THEN 1000
                     ELSE IF ret.credit_score > 30 THEN 1200 ELSE 1600
            rate == IF ret.requested_rate > floor THEN ret.requested_rate ELSE floor
            emi == calculate_emi(ret.loan_amount, rate, ret.tenure)
            over == 2 * (emi.num + ActiveInstallments(ret.customer))
                        > 100 * customers[ret.customer].monthly_salary
        IN  /\ emi.den = 1
            /\ over => ret.decision = Decision(FALSE, rate, EMI_TOO_HIGH)
            /\ ~over => ret.decision = Decision(TRUE, rate, APPROVED)

C4_Witness ==
    /\ DecisionMade
    /\ ret.decision.message = EMI_TOO_HIGH
    /\ ret.decision.rate = 1200
    /\ ret.requested_rate = 800
    /\ ActiveInstallments(ret.customer) > 0
    /\ 2 * ActiveInstallments(ret.customer)
           <= 100 * customers[ret.customer].monthly_salary

\* the affordability boundary: installments of exactly half the income pass
C4_BoundaryReached ==
    /\ DecisionMade
    /\ ret.decision.approved
    /\ 2 * (calculate_emi(ret.loan_amount, ret.decision.rate, ret.tenure).num
            + ActiveInstallments(ret.customer))
           = 100 * customers[ret.customer].monthly_salary

(***************************************************************************)
(* Properties of calculate_credit_score (ScoreSpec).                       *)
(***************************************************************************)
ScoreMade == ret.fn = "calculate_credit_score"

HistoryRows(c) == {i \in DOMAIN loans : loans[i].customer = c}

\* C5: with a positive approved limit and a non-empty history whose active
\* principal reaches the limit (utilization >= 100%), the score is exactly 0,
\* whatever the on-time ratio, the loan count and the current-year count are.
C5_FullUtilizationScoresZero ==
    (/\ ScoreMade
     /\ HistoryRows(ret.customer) # {}
     /\ customers[ret.customer].approved_limit > 0
     /\ ActivePrincipal(ret.customer) >= 100 * customers[ret.customer].approved_limit)
        => ret.score = 0

\* exactly 100% utilization, repaid beyond the tenure, rows of this year
C5_Witness ==
    /\ ScoreMade
    /\ ret.score = 0
    /\ customers[ret.customer].approved_limit > 0
    /\ ActivePrincipal(ret.customer) = 100 * customers[ret.customer].approved_limit
    /\ \A i \in HistoryRows(ret.customer) :
          /\ loans[i].emis_paid_on_time > loans[i].tenure
          /\ loans[i].tenure > 0
          /\ YearOf(loans[i].start_date) = YearOf(today)

\* C6: the score is an integer between 0 and 100 for every customer and
\* every history: any number of rows, on-time counts above the tenure or
\* below zero, total tenure 0, approved limit 0 or negative.
C6_ScoreInRange == ScoreMade => ret.score \in 0..100

\* more than five rows, on-time count above tenure, limit not positive
C6_Witness ==
    /\ ScoreMade
    /\ Cardinality(HistoryRows(ret.customer)) > 5
    /\ customers[ret.customer].approved_limit <= 0
    /\ \A i \in HistoryRows(ret.customer) :
          loans[i].emis_paid_on_time > loans[i].tenure /\ loans[i].tenure > 0
    /\ ret.score = 80

\* a history whose tenures sum to 0 is scored without factor 1
C6_ZeroTenureReached ==
    /\ ScoreMade
    /\ HistoryRows(ret.customer) # {}
    /\ \A i \in HistoryRows(ret.customer) :
          loans[i].tenure = 0 /\ loans[i].emis_paid_on_time > 0
    /\ ret.score \in 0..100

\* the top of the range is reached
C6_HundredReached == ScoreMade /\ ret.score = 100

\* C7: a customer without loan rows scores exactly 50, whatever the income,
\* the approved limit and the evaluation date are.
C7_NewCustomerScoresFifty ==
    (ScoreMade /\ HistoryRows(ret.customer) = {}) => ret.score = 50

C7_Witness ==
    /\ ScoreMade
    /\ HistoryRows(ret.customer) = {}
    /\ ret.score = 50
    /\ today = 400
    /\ loans # <<>>

(***************************************************************************)
(* Properties of the handlers (Spec).                                      *)
(***************************************************************************)
\* a create_loan request has just been answered
CreateAnswered == resp.op = "create_loan" /\ resp.status # 404 /\ resp.message # "invalid request"

\* the row loan issuance has to store for the answered request
IssuedRow(r, day) ==
    [customer |-> r.customer_id, loan_amount |-> r.loan_amount,
     tenure |-> r.tenure, interest_rate |-> r.decision.rate,
     monthly_repayment |->
         calculate_emi(r.loan_amount, r.decision.rate, r.tenure).num,
     emis_paid_on_time |-> 0, start_date |-> day,
     end_date |-> day + 30 * r.tenure]

\* C8: a create_loan whose decision is approved adds exactly one Loan row,
\* for that customer, with the requested amount and tenure, the corrected
\* rate, the EMI at the corrected rate, start_date = today and end_date =
\* start_date + 30 * tenure days, and changes no other row; a create_loan
\* whose decision is a rejection changes no row and returns the reason; no
\* step changes a customer, and rows change in no other way.
C8_IssuanceFrame ==
    [][ /\ customers' = customers
        /\ (resp' # resp /\ resp'.op = "create_loan" /\ resp'.decision.approved) =>
              /\ loans' = Append(loans, IssuedRow(resp', today))
              /\ resp'.loan_id = Len(loans')
        /\ (resp' # resp /\ resp'.op = "create_loan" /\ ~resp'.decision.approved) =>
              /\ loans' = loans
              /\ resp'.loan_id = 0
              /\ resp'.decision.message \in Rejections =>
                    resp'.message = resp'.decision.message
        /\ loans' # loans =>
              resp' # resp /\ resp'.op = "create_loan" /\ resp'.decision.approved
      ]_vars

\* an approved request at a corrected rate, stored next to earlier rows
C8_Witness ==
    /\ resp.op = "create_loan"
    /\ resp.decision.approved
    /\ resp.tenure = 3
    /\ resp.loan_id = Len(loans)
    /\ Len(loans) >= 2
    /\ loans[Len(loans)].interest_rate = 1600
    /\ resp.interest_rate = 0
    /\ loans[Len(loans)].end_date = loans[Len(loans)].start_date + 90
    /\ loans[Len(loans)].monthly_repayment = resp.monthly_installment.num

\* a rejected create_loan has been answered with its reason
C8_RejectionReached ==
    /\ resp.op = "create_loan"
    /\ resp.decision.message = EMI_TOO_HIGH
    /\ resp.message = EMI_TOO_HIGH
    /\ Len(loans) >= 1

\* C9: a create_loan request with a non-positive tenure or a non-positive
\* amount is never approved and stores nothing, so every stored Loan row has
\* tenure > 0 and end_date >= start_date.
C9_InvalidTermsNeverIssued ==
    /\ (CreateAnswered /\ (resp.tenure <= 0 \/ resp.loan_amount <= 0)) =>
          ~resp.approval /\ resp.loan_id = 0
    /\ \A i \in DOMAIN loans :
          loans[i].tenure > 0 /\ loans[i].end_date >= loans[i].start_date

\* C10: for an existing customer and positive numeric terms, a decision of
\* "limit exceeded", "score too low" or "EMI too high" is answered by both
\* handlers with status 200, approval = false and the reason, also when the
\* requested rate is 0.
C10_RejectionsAreSuccesses ==
    (/\ resp.op \in {"check_eligibility", "create_loan"}
     /\ resp.tenure > 0
     /\ resp.loan_amount > 0
     /\ ~resp.decision.raised
     /\ resp.decision.message \in Rejections)
        => /\ resp.status = HTTP_200_OK
           /\ ~resp.approval
           /\ resp.message = resp.decision.message

(***************************************************************************)
(* Customer registration (CustomerRegistrationSerializer.create).  The     *)
(* AutoField customer_id of a row is its index in customers.               *)
(***************************************************************************)
MaxRegistered == 2

MaxIncomeStep == 60

\* the rounding that cuts the amount down to the lakh below
round_lakh_Floor(amount) == 100000 * (amount \div 100000)

\* round(amount, -5) on a Python int: nearest multiple of 100000, a tie goes
\* to the even multiple
round_lakh(amount) ==
    LET q == amount \div 100000
        r == amount % 100000
    IN  IF 2 * r < 100000 THEN 100000 * q
        ELSE IF 2 * r > 100000 THEN 100000 * (q + 1)
        ELSE IF q % 2 = 0 THEN 100000 * q ELSE 100000 * (q + 1)

\* approved_limit = round(36 * monthly_income, -5); current_debt = 0
RegisteredCustomer(monthly_income) ==
    Customer(monthly_income, round_lakh(36 * monthly_income))

\* monthly incomes: a grid whose odd multiples of 12500 are the ties, and
\* incomes next to a tie or next to a rounding boundary
Incomes ==
    {2500 * k : k \in 0..MaxIncomeStep}
        \cup {1, 1388, 1389, 4166, 4167, 12499, 12501, 37499, 37501}

InitRegister ==
    /\ customers = <<>>
    /\ loans = <<>>
    /\ today = 0
    /\ resp = NoResponse
    /\ ret = NoCall
    /\ inflight = NoneInFlight

Register ==
    /\ Len(customers) < MaxRegistered
    /\ \E monthly_income \in Incomes :
        customers' = Append(customers, RegisteredCustomer(monthly_income))
    /\ UNCHANGED <<loans, today, resp, ret, inflight>>

NextRegister == Register

RegisterSpec == InitRegister /\ [][NextRegister]_vars

\* C11: a registered customer's approved limit is 36 x monthly income
\* rounded to the nearest 100,000 (income 50000 gives 1800000): it is a
\* non-negative multiple of 100,000 and no multiple of 100,000 is nearer to
\* 36 x income, also when 36 x income lies halfway between two multiples.
C11_LimitNearestLakh ==
    \A c \in DOMAIN customers :
        LET income == customers[c].monthly_salary
            limit == customers[c].approved_limit
            d == IF limit >= 36 * income THEN limit - 36 * income
                 ELSE 36 * income - limit
        IN  /\ limit >= 0
            /\ limit % 100000 = 0
            /\ 2 * d <= 100000
            /\ income = 50000 => limit = 1800000

\* a halfway income has been registered: 36 x 12500 = 450000
C11_Witness ==
    \E c \in DOMAIN customers :
        /\ customers[c].monthly_salary = 12500
        /\ customers[c].approved_limit = 400000

\* the ties go to the even multiple, downwards and upwards
C11_TiesReached ==
    \E c, e \in DOMAIN customers :
        /\ customers[c] = Customer(12500, 400000)
        /\ customers[e] = Customer(37500, 1400000)

(***************************************************************************)
(* Concurrent create_loan.  The handler runs outside any transaction and   *)
(* takes no lock: its queries (views.py 200-203) and its insert (211-219)  *)
(* are separate database statements, so other workers' statements can fall *)
(* between them.  Each worker handles one request.                         *)
(***************************************************************************)
RaceRequests ==
    { Terms(1, 30000, 0, 3), Terms(1, 20000, 0, 3), Terms(2, 10000, 0, 3),
      Terms(3, 10000, 0, 3) }

InitRace ==
    /\ customers = InitialCustomers
    /\ loans \in InitialHistories
    /\ today = 0
    /\ resp = NoResponse
    /\ ret = NoCall
    /\ inflight = NoneInFlight

\* create_loan up to the decision: the customer lookup, the score and the
\* approval decision, all computed from the rows stored at this moment
ReadAndDecide(w) ==
    /\ inflight[w].pc = "idle"
    /\ \E r \in RaceRequests :
        IF r.customer_id \notin DOMAIN customers
        THEN inflight' = [inflight EXCEPT ![w] =
                 [IdleWorker EXCEPT !.pc = "done", !.terms = r]]
        ELSE LET credit_score == calculate_credit_score(r.customer_id)
                 d == get_approval_decision(credit_score, r.customer_id,
                          r.loan_amount, r.interest_rate, r.tenure)
                 current_loan_sum ==
                     SumField(loans, CurrentLoansOf(loans, r.customer_id, today),
                              "loan_amount")
             IN  inflight' = [inflight EXCEPT ![w] =
                     [pc |-> "decided", terms |-> r,
                      current_loan_sum |-> current_loan_sum,
                      credit_score |-> credit_score, decision |-> d,
                      loan_id |-> 0]]
    /\ UNCHANGED <<customers, loans, today, resp, ret>>

\* create_loan from the decision on: the insert of the approved loan and
\* the response
Persist(w) ==
    /\ inflight[w].pc = "decided"
    /\ LET r == inflight[w].terms
           d == inflight[w].decision
           monthly_installment == calculate_emi(r.loan_amount, d.rate, r.tenure)
       IN  IF d.approved
           THEN /\ loans' = Append(loans,
                       NewLoan(r.customer_id, r.loan_amount, r.tenure, d.rate,
                               monthly_installment, today))
                /\ inflight' = [inflight EXCEPT ![w].pc = "done",
                                                ![w].loan_id = Len(loans) + 1]
           ELSE /\ inflight' = [inflight EXCEPT ![w].pc = "done"]
                /\ UNCHANGED loans
    /\ UNCHANGED <<customers, today, resp, ret>>

NextRace == \E w \in Workers : ReadAndDecide(w) \/ Persist(w)

RaceSpec == InitRace /\ [][NextRace]_vars

\* workers whose request was approved for customer c
ApprovedFor(c) ==
    {w \in Workers : /\ inflight[w].pc \in {"decided", "done"}
                     /\ inflight[w].decision.approved
                     /\ inflight[w].terms.customer_id = c}

\* C12: create_loan does not handle the limit race.  Every approved request
\* satisfied the limit check on the rows it read (what it read plus its
\* amount is within the approved limit), and yet two requests of one
\* customer whose reads and inserts interleave are both approved and leave
\* the customer's active principal above the approved limit.
C12_EachRequestAloneWithinLimit ==
    \A c \in DOMAIN customers : \A w \in ApprovedFor(c) :
        /\ inflight[w].current_loan_sum + inflight[w].terms.loan_amount
              <= 100 * customers[c].approved_limit
        /\ inflight[w].pc = "done" =>
              /\ inflight[w].loan_id \in DOMAIN loans
              /\ loans[inflight[w].loan_id].customer = c
              /\ loans[inflight[w].loan_id].loan_amount = inflight[w].terms.loan_amount

\* both requests of customer 1 were approved on the same rows and inserted:
\* 300 + 300 against a limit of 500
C12_Witness ==
    /\ \A w \in {1, 2} :
          /\ inflight[w].pc = "done"
          /\ inflight[w].decision.approved
          /\ inflight[w].terms = Terms(1, 30000, 0, 3)
          /\ inflight[w].current_loan_sum = 0
    /\ ActivePrincipal(1) = 60000
    /\ ActivePrincipal(1) > 100 * customers[1].approved_limit

(***************************************************************************)
(* Requests handled one at a time (Spec).                                  *)
(***************************************************************************)
\* every stored loan has a positive amount and a positive tenure: no
\* request with a non-positive amount or tenure has been approved
PositiveTermsOnly ==
    \A i \in DOMAIN loans : loans[i].loan_amount > 0 /\ loans[i].tenure > 0

WithinLimit(c) == ActivePrincipal(c) <= Cents(customers[c].approved_limit)

\* C13: with requests handled one at a time, positive amounts and tenures,
\* and the date moving forward, the principal of a customer's active loans
\* (end_date >= today) never exceeds the customer's approved limit.
C13_SerialWithinLimit ==
    PositiveTermsOnly => \A c \in DOMAIN customers : WithinLimit(c)

\* customer 1 was granted 300 and then 200, exactly the limit of 500; on a
\* later day both loans are still active and a further create_loan is
\* rejected for the limit
C13_Witness ==
    /\ PositiveTermsOnly
    /\ today > 0
    /\ Len(loans) = 2
    /\ \A i \in DOMAIN loans : loans[i].customer = 1 /\ loans[i].start_date = 0
    /\ ActivePrincipal(1) = Cents(customers[1].approved_limit)
    /\ resp.op = "create_loan"
    /\ resp.customer_id = 1
    /\ resp.loan_amount > 0
    /\ resp.tenure > 0
    /\ ~resp.approval
    /\ resp.message = LIMIT_EXCEEDED

\* a step in which the named handler takes a request and answers it
Answers(op) == resp = NoResponse /\ resp'.op = op

\* what check_eligibility answers to the terms of answer made on the
\* current rows and date
Quote(made) ==
    check_eligibility_response(TRUE, made.customer_id, made.loan_amount,
                               made.interest_rate, made.tenure)

C14_CreateReached ==
    /\ resp.op = "create_loan"
    /\ resp.status = HTTP_200_OK
    /\ resp.approval
    /\ Len(loans) = 2
    /\ resp.loan_id = 2
    /\ resp.interest_rate < loans[2].interest_rate

====
